---- MODULE Spec2Model ----
(***************************************************************************)
(* mdserve: the render / serve / watch loop of src/server.js together with *)
(* the FileWatcher of src/fileWatcher.js and the process-level handlers of *)
(* the command line entry point.                                           *)
(*                                                                         *)
(* One createServer() call is modelled from its first line to close().     *)
(* Every "await" of the source is a point where other callbacks may run,   *)
(* so every await is the boundary between two actions.                     *)
(*                                                                         *)
(* Spec and SpecBurst are the server with its viewers; SpecRequests is the *)
(* server with the requests of every route; SpecAssets is the /assets/     *)
(* route over all paths; SpecWatcher is the FileWatcher class under any    *)
(* sequence of start() and stop(); SpecCli is the command line from its    *)
(* first line until the server listens or the process has exited.          *)
(***************************************************************************)
EXTENDS Integers, Sequences, FiniteSets, TLC

\* ---------------------------------------------------------------- bounds
MaxChanges == 2        \* 'change' events delivered to the handler
MaxBurst   == 3        \* the same, where a burst of events is examined
MaxViewers == 2        \* /events connections open at the same time
MaxContent == 2        \* successive contents of the markdown file
MaxParts   == 3        \* parts of a requested asset path
MaxCalls   == 6        \* calls of start() and stop() on one FileWatcher

NULL     == "null"                  \* null where the values are names
NoHtml   == [kind |-> "null", body |-> 0, liveReload |-> FALSE]
                                    \* cachedHtml before the first store
NoContent == -1                     \* nothing read yet
NoExit    == -1                     \* the process has not exited

\* Strings that are examined character by character are sequences of
\* characters.  The default of the --port option.
DefaultPort == <<"3", "0", "0", "0">>

LastRender    == IF MaxBurst > MaxChanges THEN MaxBurst ELSE MaxChanges
Renders       == 0..LastRender          \* 0 is the initial render
ChangeRenders == 1..LastRender          \* one per 'change' event
Viewers       == 1..MaxViewers
Contents      == 1..MaxContent

\* ------------------------------------------------------------ pure parts
\* renderMarkdown: the fragment produced from the content that was read.
renderMarkdown(content) ==
    [kind |-> "fragment", body |-> content, liveReload |-> FALSE]

\* generateHtml: the complete document around a fragment; the live reload
\* script is present exactly when watch is set.
generateHtml(renderedContent, w) ==
    [kind |-> "document", body |-> renderedContent.body, liveReload |-> w]

Range(s) == {s[i] : i \in 1..Len(s)}

\* Set.add on the insertion ordered Set: no effect when already a member.
SetAdd(s, x) == IF x \in Range(s) THEN s ELSE Append(s, x)

\* SetDelete, were the clients kept in an array and removed with
\* splice(indexOf(x), 1): for an absent x the last element goes.
SetDeleteSplice(s, x) ==
    IF x \in Range(s) THEN SelectSeq(s, LAMBDA y : y # x)
    ELSE SubSeq(s, 1, Len(s) - 1)

\* Set.delete: no effect when not a member.
SetDelete(s, x) == SelectSeq(s, LAMBDA y : y # x)

VARIABLES
    watch,          \* options.watch
    pc,             \* position of createServer / close
    rejectedBy,     \* why createServer rejected
    cachedHtml,     \* let cachedHtml
    sseClients,     \* const sseClients (a Set iterates in insertion order)
    fileWatcher,    \* let fileWatcher: NULL or "created"
    watcher,        \* FileWatcher.watcher: NULL or "open"
    rphase,         \* position of each updateRenderedHtml invocation
    rcontent,       \* content read by each invocation
    conn,           \* transport state of each viewer connection
    written,        \* the writes to viewer connections made by the last step
    response,       \* the HTTP response produced by the last step, if any
    proc,           \* the process: "running" or "exited"
    exitCode,       \* its exit code once exited
    storeSeq,       \* history: the renders in the order they stored
    snapAtStart,    \* history: cachedHtml when a render still reading started
    watchErrors,    \* history: number of watcher errors raised (0 or 1)
    handles,        \* number of chokidar watchers created and not closed
    calls,          \* history: the methods called on the FileWatcher
    changes,        \* history: number of 'change' events delivered
    afterClose,     \* history: the handlers that ran after close()
    cli,            \* position of the action handler of the command line
    portArg         \* options.port, a string

vars == <<watch, pc, rejectedBy, cachedHtml, sseClients,
          fileWatcher, watcher, rphase, rcontent, conn, written, response,
          proc, exitCode, storeSeq, snapAtStart, watchErrors,
          handles, calls, changes, afterClose, cli, portArg>>

serverVars == <<pc, rejectedBy, fileWatcher, watcher, handles, calls>>
renderVars == <<rphase, rcontent, cachedHtml, storeSeq, snapAtStart,
                changes>>
viewerVars == <<sseClients, conn>>
procVars   == <<proc, exitCode, watchErrors, afterClose>>
cliVars    == <<cli, portArg>>

\* An updateRenderedHtml invocation that has been called and has neither
\* returned nor thrown.
InProgress(r) == rphase[r] \in {"reading", "generating"}

Alive == proc = "running"

\* One request handled by requestHandler: the route that answered, the part
\* of req.url after '/assets/', the status of writeHead, the document passed
\* to res.end and the path of the file piped into res.
Response(route, asset, status, body, file) ==
    [route |-> route, asset |-> asset, status |-> status, body |-> body,
     file |-> file]

NoResponse == Response("none", <<>>, 0, NoHtml, <<>>)

\* A step that answers no request and writes to no viewer connection.
NoOutput == response' = NoResponse /\ written' = <<>>

Init ==
    /\ watch \in BOOLEAN
    /\ pc = "initialRender"
    /\ rejectedBy = NULL
    /\ cachedHtml = NoHtml
    /\ sseClients = <<>>
    /\ fileWatcher = NULL
    /\ watcher = NULL
    /\ rphase = [r \in Renders |-> IF r = 0 THEN "reading" ELSE "idle"]
    /\ rcontent = [r \in Renders |-> NoContent]
    /\ conn = [v \in Viewers |-> "none"]
    /\ written = <<>>
    /\ response = NoResponse
    /\ proc = "running"
    /\ exitCode = NoExit
    /\ storeSeq = <<>>
    /\ snapAtStart = [r \in Renders |-> NoHtml]
    /\ watchErrors = 0
    /\ handles = 0
    /\ calls = <<>>
    /\ changes = 0
    /\ afterClose = {}
    /\ cli = "createServer"
    /\ portArg = DefaultPort

\* ---------------------------------------------------- FileWatcher methods
\* start(): this.watcher is assigned a new chokidar watcher; a watcher it
\* held before is not closed.
start ==
    /\ watcher' = "open"
    /\ handles' = handles + 1
    /\ calls' = Append(calls, "start")

\* stop, were this.watcher.close() called without the test of this.watcher:
\* with no watcher the call throws a TypeError that nothing catches.
stopUnguarded ==
    /\ IF watcher # NULL
         THEN /\ handles' = handles - 1
              /\ watcher' = NULL
              /\ UNCHANGED <<proc, exitCode>>
         ELSE /\ proc' = "exited"
              /\ exitCode' = 1
              /\ UNCHANGED <<watcher, handles>>
    /\ calls' = Append(calls, "stop")

\* stop(): the chokidar watcher held, if any, is closed and forgotten.
\* Nothing in it throws.
stop ==
    /\ IF watcher # NULL
         THEN /\ handles' = handles - 1
              /\ watcher' = NULL
         ELSE UNCHANGED <<watcher, handles>>
    /\ calls' = Append(calls, "stop")
    /\ UNCHANGED <<proc, exitCode>>

\* ------------------------------------------------------ updateRenderedHtml
\* The continuation of an await on a settled promise runs in the same drain
\* of the microtask queue, before any I/O callback.  So what follows a
\* resolved or rejected updateRenderedHtml() in its caller belongs to the
\* step that resolves or rejects it; the steps are separated where the code
\* waits for the file system.

\* The contents of the markdown file are numbered in the order in which
\* they are written from outside: a read finds the content of that moment,
\* which is no older than what any earlier read found.
CurrentContent(content) == \A q \in Renders : rcontent[q] <= content

\* ReadFileOk, were the fragment assigned to cachedHtml before generateHtml
\* has wrapped it.
ReadFileOkPartial(r, content) ==
    /\ Alive
    /\ rphase[r] = "reading"
    /\ CurrentContent(content)
    /\ rphase' = [rphase EXCEPT ![r] = "generating"]
    /\ rcontent' = [rcontent EXCEPT ![r] = content]
    /\ snapAtStart' = [snapAtStart EXCEPT ![r] = NoHtml]
    /\ cachedHtml' = renderMarkdown(content)
    /\ NoOutput
    /\ UNCHANGED <<watch, cliVars, serverVars, storeSeq, viewerVars,
                   procVars, changes>>

\* ReadFileOk, were the clients told to reload as soon as renderMarkdown
\* has resolved, before the document is generated and stored.
ReadFileOkNotifying(r, content) ==
    /\ Alive
    /\ rphase[r] = "reading"
    /\ CurrentContent(content)
    /\ rphase' = [rphase EXCEPT ![r] = "generating"]
    /\ rcontent' = [rcontent EXCEPT ![r] = content]
    /\ snapAtStart' = [snapAtStart EXCEPT ![r] = NoHtml]
    /\ response' = NoResponse
    /\ written' = IF r = 0 THEN <<>>
                  ELSE [i \in 1..Len(sseClients) |->
                          [client |-> sseClients[i], data |-> "reload",
                           render |-> r]]
    /\ UNCHANGED <<watch, cliVars, serverVars, cachedHtml, storeSeq,
                   viewerVars, procVars, changes>>

\* renderMarkdown: stat succeeds and readFile reads what the file holds at
\* that moment (the file is rewritten from outside at any time).  The
\* promise of readFile settles only after further file-system steps (the
\* file is closed), then the pipeline runs, renderMarkdown resolves with
\* the fragment and generateHtml is awaited (it reads the style sheet from
\* disk unless it is cached): the content is fixed here, the document is
\* stored in a later step.
ReadFileOk(r, content) ==
    /\ Alive
    /\ rphase[r] = "reading"
    /\ CurrentContent(content)
    /\ rphase' = [rphase EXCEPT ![r] = "generating"]
    /\ rcontent' = [rcontent EXCEPT ![r] = content]
    /\ snapAtStart' = [snapAtStart EXCEPT ![r] = NoHtml]
    /\ NoOutput
    /\ UNCHANGED <<watch, cliVars, serverVars, cachedHtml, storeSeq,
                   viewerVars, procVars, changes>>

\* ReadFileFail, were the error of the initial render only logged, as the
\* 'change' handler does, and createServer went on to watch and listen.
ReadFileFailSwallowed(r) ==
    /\ Alive
    /\ rphase[r] = "reading"
    /\ rphase' = [rphase EXCEPT ![r] = "failed"]
    /\ IF r = 0
         THEN /\ pc' = "binding"
              /\ IF watch
                   THEN fileWatcher' = "created" /\ start
                   ELSE UNCHANGED <<fileWatcher, watcher, handles, calls>>
         ELSE UNCHANGED <<pc, fileWatcher, watcher, handles, calls>>
    /\ NoOutput
    /\ UNCHANGED <<watch, cliVars, rejectedBy, rcontent, cachedHtml,
                   storeSeq, snapAtStart, viewerVars, procVars, changes>>

\* renderMarkdown throws (the file is missing, unreadable or too large at
\* that moment); updateRenderedHtml logs and rethrows without assigning
\* cachedHtml.
\* For the initial render createServer rejects at its await; in the
\* 'change' handler the catch block logs the error and the handler ends.
ReadFileFail(r) ==
    /\ Alive
    /\ rphase[r] = "reading"
    /\ rphase' = [rphase EXCEPT ![r] = "failed"]
    /\ IF r = 0
         THEN pc' = "rejected" /\ rejectedBy' = "render"
         ELSE UNCHANGED <<pc, rejectedBy>>
    /\ NoOutput
    /\ UNCHANGED <<watch, cliVars, fileWatcher, watcher, rcontent,
                   cachedHtml, storeSeq, snapAtStart, viewerVars, procVars,
                   changes, handles, calls>>

\* The document a render that read its content resolves with.
RenderedHtml(r) == generateHtml(renderMarkdown(rcontent[r]), watch)

\* generateHtml resolves: cachedHtml is assigned the complete document and
\* updateRenderedHtml returns it.
Store(r) ==
    /\ rphase[r] = "generating"
    /\ cachedHtml' = RenderedHtml(r)
    /\ storeSeq' = Append(storeSeq, r)
    /\ rphase' = [rphase EXCEPT ![r] = "done"]

\* --------------------------------------------------------------- createServer
\* The initial render returned: with watch the FileWatcher is created, the
\* 'change' handler registered and start() called; then server.listen.
InitialRenderDone ==
    /\ Alive
    /\ pc = "initialRender"
    /\ Store(0)
    /\ IF watch
         THEN fileWatcher' = "created" /\ start
         ELSE UNCHANGED <<fileWatcher, watcher, handles, calls>>
    /\ pc' = "binding"
    /\ NoOutput
    /\ UNCHANGED <<watch, cliVars, rejectedBy, rcontent, snapAtStart,
                   viewerVars, procVars, changes>>

\* server.listen succeeded: requests are accepted, createServer resolves.
ListenOk ==
    /\ Alive
    /\ pc = "binding"
    /\ pc' = "listening"
    /\ NoOutput
    /\ UNCHANGED <<watch, cliVars, rejectedBy, fileWatcher, watcher,
                   renderVars, viewerVars, procVars, handles, calls>>

\* server emitted 'error' (port in use): createServer rejects.  Nothing
\* stops the FileWatcher that was started before.
ListenFailed ==
    /\ Alive
    /\ pc = "binding"
    /\ pc' = "rejected"
    /\ rejectedBy' = "listen"
    /\ NoOutput
    /\ UNCHANGED <<watch, cliVars, fileWatcher, watcher, renderVars,
                   viewerVars, procVars, handles, calls>>

\* ------------------------------------------------------------- FileWatcher
\* Events for which createServer registers a listener on the FileWatcher.
RegisteredEvents == {"change"}

\* The lowest re-render not yet started.
NextRender == CHOOSE r \in ChangeRenders :
                  /\ rphase[r] = "idle"
                  /\ \A q \in ChangeRenders : q < r => rphase[q] # "idle"

\* chokidar reports 'change'; FileWatcher re-emits it; the handler of
\* createServer runs up to its await: updateRenderedHtml is called and
\* renderMarkdown starts.  At most limit events are delivered.
HandleChange(limit) ==
    /\ Alive
    /\ watcher = "open"
    /\ \E r \in 1..limit : rphase[r] = "idle"
    /\ LET r == NextRender IN
         /\ rphase' = [rphase EXCEPT ![r] = "reading"]
         /\ snapAtStart' = [snapAtStart EXCEPT ![r] = cachedHtml]
    /\ changes' = changes + 1
    /\ NoOutput
    /\ UNCHANGED <<watch, cliVars, serverVars, rcontent, cachedHtml,
                   storeSeq, viewerVars, procVars>>

ChangeEvent == HandleChange(MaxChanges)

BurstChangeEvent == HandleChange(MaxBurst)

\* One write to a viewer connection; render names the re-render whose
\* handler wrote it (0 for the greeting of /events).
Write(v, data, r) == [client |-> v, data |-> data, render |-> r]

\* Positions of sseClients whose transport is gone: client.write fails there.
FailingPositions == {i \in 1..Len(sseClients) : conn[sseClients[i]] # "open"}

\* The for-of loop over sseClients when the write at position k throws
\* (k = 0: no write throws).  A throw leaves the loop for the catch block of
\* the handler; a failed write that does not throw delivers nothing.
NotifyLoop(r, k) ==
    LET reached == IF k = 0 THEN sseClients ELSE SubSeq(sseClients, 1, k - 1)
        open    == SelectSeq(reached, LAMBDA v : conn[v] = "open")
    IN  [i \in 1..Len(open) |-> Write(open[i], "reload", r)]

\* The 'change' handler: updateRenderedHtml() returned, "Re-render complete"
\* is logged and the clients are notified.
RerenderDone(r) ==
    /\ Alive
    /\ r \in ChangeRenders
    /\ Store(r)
    /\ \E k \in {0} \cup FailingPositions : written' = NotifyLoop(r, k)
    /\ response' = NoResponse
    /\ afterClose' = IF pc = "closed" THEN afterClose \cup {"change"}
                     ELSE afterClose
    /\ UNCHANGED <<watch, cliVars, serverVars, rcontent, snapAtStart,
                   viewerVars, proc, exitCode, watchErrors, changes>>

\* chokidar reports 'error'; FileWatcher logs it and emits 'error'.  An
\* EventEmitter with no 'error' listener throws the error from emit(); the
\* exception is uncaught and the process exits with code 1.
WatcherError ==
    /\ Alive
    /\ watcher = "open"
    /\ watchErrors = 0
    /\ watchErrors' = 1
    /\ IF "error" \in RegisteredEvents
         THEN UNCHANGED <<proc, exitCode>>
         ELSE proc' = "exited" /\ exitCode' = 1
    /\ NoOutput
    /\ UNCHANGED <<watch, cliVars, serverVars, renderVars, viewerVars,
                   afterClose>>

\* ------------------------------------------------------------ requestHandler
Serving == Alive /\ pc = "listening"

\* GetRoot, were the document rendered anew for the request.
GetRootRendering ==
    /\ Serving
    /\ \E r \in 1..MaxChanges : rphase[r] = "idle"
    /\ rphase' = [rphase EXCEPT ![NextRender] = "reading"]
    /\ response' = Response("/", <<>>, 200, cachedHtml, <<>>)
    /\ written' = <<>>
    /\ UNCHANGED <<watch, cliVars, serverVars, rcontent, cachedHtml,
                   storeSeq, snapAtStart, changes, viewerVars, procVars>>

\* GetRoot, were the request held until no render is in progress.
GetRootWaiting ==
    /\ Serving
    /\ \A r \in Renders : ~InProgress(r)
    /\ response' = Response("/", <<>>, 200, cachedHtml, <<>>)
    /\ written' = <<>>
    /\ UNCHANGED <<watch, cliVars, serverVars, renderVars, viewerVars,
                   procVars>>

\* GET /
GetRoot ==
    /\ Serving
    /\ response' = Response("/", <<>>, 200, cachedHtml, <<>>)
    /\ written' = <<>>
    /\ UNCHANGED <<watch, cliVars, serverVars, renderVars, viewerVars,
                   procVars>>

\* GetEvents, were the last 'reload' replayed to a new client.
GetEventsReplay(v) ==
    /\ Serving
    /\ conn[v] = "none"
    /\ \A u \in Viewers : u < v => conn[u] # "none"
    /\ IF watch
         THEN /\ sseClients' = SetAdd(sseClients, v)
              /\ conn' = [conn EXCEPT ![v] = "open"]
              /\ written' = IF Len(storeSeq) > 1
                               THEN <<Write(v, "connected", 0),
                                      Write(v, "reload",
                                            storeSeq[Len(storeSeq)])>>
                               ELSE <<Write(v, "connected", 0)>>
              /\ response' = Response("/events", <<>>, 200, NoHtml, <<>>)
         ELSE /\ UNCHANGED <<sseClients, conn>>
              /\ written' = <<>>
              /\ response' = Response("other", <<>>, 404, NoHtml, <<>>)
    /\ UNCHANGED <<watch, cliVars, serverVars, renderVars, procVars>>

\* GetEvents, were the route not guarded by watch.
GetEventsUnguarded(v) ==
    /\ Serving
    /\ conn[v] = "none"
    /\ \A u \in Viewers : u < v => conn[u] # "none"
    /\ sseClients' = SetAdd(sseClients, v)
    /\ conn' = [conn EXCEPT ![v] = "open"]
    /\ written' = <<Write(v, "connected", 0)>>
    /\ response' = Response("/events", <<>>, 200, NoHtml, <<>>)
    /\ UNCHANGED <<watch, cliVars, serverVars, renderVars, procVars>>

\* GET /events on a new connection v: registered as a client when watch is
\* set, otherwise the request falls through to the final 404.  A new
\* connection takes the lowest identity not in use.
GetEvents(v) ==
    /\ Serving
    /\ conn[v] = "none"
    /\ \A u \in Viewers : u < v => conn[u] # "none"
    /\ IF watch
         THEN /\ sseClients' = SetAdd(sseClients, v)
              /\ conn' = [conn EXCEPT ![v] = "open"]
              /\ written' = <<Write(v, "connected", 0)>>
              /\ response' = Response("/events", <<>>, 200, NoHtml, <<>>)
         ELSE /\ UNCHANGED <<sseClients, conn>>
              /\ written' = <<>>
              /\ response' = Response("other", <<>>, 404, NoHtml, <<>>)
    /\ UNCHANGED <<watch, cliVars, serverVars, renderVars, procVars>>

\* Any URL that is none of /, /events, /assets/...
GetOther ==
    /\ Serving
    /\ response' = Response("other", <<>>, 404, NoHtml, <<>>)
    /\ written' = <<>>
    /\ UNCHANGED <<watch, cliVars, serverVars, renderVars, viewerVars,
                   procVars>>

\* Strings are sequences of characters; "%2E" and "%2F" are the escapes of
\* "." and "/", and "%" stands for an escape that is not valid.

\* decodeURIComponent: URIError on a malformed escape.
URIError == <<"URIError">>
decodeURIComponent(u) ==
    IF \E i \in 1..Len(u) : u[i] = "%" THEN URIError
    ELSE [i \in 1..Len(u) |->
            CASE u[i] = "%2E" -> "."
              [] u[i] = "%2F" -> "/"
              [] OTHER -> u[i]]

\* String.prototype.startsWith
startsWith(str, prefix) ==
    /\ Len(prefix) <= Len(str)
    /\ SubSeq(str, 1, Len(prefix)) = prefix

\* The segments of a path: split on "/".
RECURSIVE Split(_)
Split(str) ==
    IF str = <<>> THEN << <<>> >>
    ELSE LET rest == Split(Tail(str))
         IN  IF Head(str) = "/" THEN << <<>> >> \o rest
             ELSE << <<Head(str)>> \o Head(rest) >> \o Tail(rest)

\* Normalisation of path.resolve: empty and "." segments are dropped, ".."
\* drops the segment before it and is dropped itself at the root.
RECURSIVE Normalize(_, _)
Normalize(segs, acc) ==
    IF segs = <<>> THEN acc
    ELSE LET seg == Head(segs)
         IN  Normalize(Tail(segs),
                 CASE seg = <<>> \/ seg = <<".">> -> acc
                   [] seg = <<".", ".">> ->
                        IF acc = <<>> THEN acc
                        ELSE SubSeq(acc, 1, Len(acc) - 1)
                   [] OTHER -> Append(acc, seg))

RECURSIVE PathString(_)
PathString(segs) ==
    IF segs = <<>> THEN <<>>
    ELSE <<"/">> \o Head(segs) \o PathString(Tail(segs))

\* path.resolve(from, to) for an absolute from: the segments of the result.
ResolveSegments(from, to) ==
    IF to # <<>> /\ Head(to) = "/" THEN Normalize(Split(to), <<>>)
    ELSE Normalize(Split(from) \o Split(to), <<>>)

\* path.resolve(from, to) as a string; the root is "/".
resolve(from, to) ==
    LET segs == ResolveSegments(from, to)
    IN  IF segs = <<>> THEN <<"/">> ELSE PathString(segs)

\* The directory of the markdown file, and what the disk holds around it:
\* a file in the directory, a file in a subdirectory, a file in a sibling
\* directory whose name starts with the name of the base directory, and a
\* file elsewhere.
baseDir == <<"/", "d">>
Files == { <<"/", "d", "/", "e">>,
           <<"/", "d", "/", "d", "/", "e">>,
           <<"/", "d", "e", "/", "e">>,
           <<"/", "e">> }
Dirs  == { <<"/">>, <<"/", "d">>, <<"/", "d", "/", "d">>, <<"/", "d", "e">> }

\* AssetResponse, were the file streamed without the access() before it.
AssetResponseNoAccess(asset) ==
    LET relativePath == decodeURIComponent(asset)
        assetPath    == resolve(baseDir, relativePath)
    IN  IF relativePath = URIError
          THEN Response("/assets", asset, 404, NoHtml, <<>>)
        ELSE IF ~startsWith(assetPath, baseDir)
          THEN Response("/assets", asset, 403, NoHtml, <<>>)
        ELSE IF assetPath \notin Files
          THEN Response("/assets", asset, 200, NoHtml, <<>>)
        ELSE Response("/assets", asset, 200, NoHtml, assetPath)

\* GET /assets/<asset>
AssetResponse(asset) ==
    LET relativePath == decodeURIComponent(asset)
        assetPath    == resolve(baseDir, relativePath)
    IN  IF relativePath = URIError
          THEN Response("/assets", asset, 404, NoHtml, <<>>)
        ELSE IF ~startsWith(assetPath, baseDir)
          THEN Response("/assets", asset, 403, NoHtml, <<>>)
        ELSE IF assetPath \notin Files \cup Dirs       \* access() throws
          THEN Response("/assets", asset, 404, NoHtml, <<>>)
        ELSE IF assetPath \in Dirs  \* 200 is sent, then the stream errors
          THEN Response("/assets", asset, 200, NoHtml, <<>>)
        ELSE Response("/assets", asset, 200, NoHtml, assetPath)

\* The requested asset paths: up to MaxParts parts joined by "/".
Parts == { <<>>, <<".">>, <<".", ".">>, <<"%2E", "%2E">>, <<"%">>,
           <<"d">>, <<"e">>, <<"d", "e">> }

RECURSIVE JoinParts(_)
JoinParts(ps) ==
    IF ps = <<>> THEN <<>>
    ELSE IF Len(ps) = 1 THEN Head(ps)
    ELSE Head(ps) \o <<"/">> \o JoinParts(Tail(ps))

AssetUrls == { JoinParts(ps) : ps \in UNION { [1..n -> Parts] : n \in 0..MaxParts } }

\* String.prototype.slice(start)
slice(str, begin) == SubSeq(str, begin + 1, Len(str))

AssetsPrefix == <<"/", "a", "s", "s", "e", "t", "s", "/">>

\* remarkRelativePathResolver, were the rewritten URL built without the
\* "/" that ends the prefix.
remarkRelativePathResolverNoSlash(url) ==
    IF \/ url = <<>>
       \/ startsWith(url, <<"h", "t", "t", "p", ":", "/", "/">>)
       \/ startsWith(url, <<"h", "t", "t", "p", "s", ":", "/", "/">>)
       \/ startsWith(url, <<"/", "/">>)
       \/ startsWith(url, <<"#">>)
      THEN url
      ELSE <<"/", "a", "s", "s", "e", "t", "s">> \o url

\* remarkRelativePathResolver: the url of an image or link node after the
\* transform; absolute URLs and anchors are left as they are.
remarkRelativePathResolver(url) ==
    IF \/ url = <<>>
       \/ startsWith(url, <<"h", "t", "t", "p", ":", "/", "/">>)
       \/ startsWith(url, <<"h", "t", "t", "p", "s", ":", "/", "/">>)
       \/ startsWith(url, <<"/", "/">>)
       \/ startsWith(url, <<"#">>)
      THEN url
      ELSE AssetsPrefix \o url

GetAsset(asset) ==
    /\ Serving
    /\ response' = AssetResponse(asset)
    /\ written' = <<>>
    /\ UNCHANGED <<watch, cliVars, serverVars, renderVars, viewerVars,
                   procVars>>

\* The peer of viewer v goes away; the 'close' event of its request has not
\* been dispatched yet.
ViewerDisconnect(v) ==
    /\ Alive
    /\ conn[v] = "open"
    /\ conn' = [conn EXCEPT ![v] = "gone"]
    /\ NoOutput
    /\ UNCHANGED <<watch, cliVars, serverVars, renderVars, sseClients,
                   procVars>>

\* ReqClose, were no 'close' listener registered on the request: the
\* connection is over and the client stays in sseClients.
ReqCloseUnlistened(v) ==
    /\ Alive
    /\ conn[v] \in {"gone", "ended"}
    /\ conn' = [conn EXCEPT ![v] = "none"]
    /\ afterClose' = IF pc = "closed" THEN afterClose \cup {"close"}
                     ELSE afterClose
    /\ NoOutput
    /\ UNCHANGED <<watch, cliVars, serverVars, renderVars, sseClients,
                   proc, exitCode, watchErrors>>

\* req.on('close'): sseClients.delete(res).  The connection is over and
\* its identity is free again.
ReqClose(v) ==
    /\ Alive
    /\ conn[v] \in {"gone", "ended"}
    /\ conn' = [conn EXCEPT ![v] = "none"]
    /\ sseClients' = SetDelete(sseClients, v)
    /\ afterClose' = IF pc = "closed" THEN afterClose \cup {"close"}
                     ELSE afterClose
    /\ NoOutput
    /\ UNCHANGED <<watch, cliVars, serverVars, renderVars, proc, exitCode,
                   watchErrors>>

\* ------------------------------------------------------------------ close()
\* Close, were the clients ended but sseClients not cleared.
CloseWithoutClear ==
    /\ Alive
    /\ pc = "listening"
    /\ pc' = "closed"
    /\ IF fileWatcher # NULL
         THEN stop
         ELSE UNCHANGED <<watcher, handles, calls, proc, exitCode>>
    /\ conn' = [v \in Viewers |->
                  IF v \in Range(sseClients) THEN "ended" ELSE conn[v]]
    /\ NoOutput
    /\ UNCHANGED <<watch, cliVars, rejectedBy, fileWatcher, renderVars,
                   sseClients, watchErrors, afterClose>>

\* fileWatcher.stop(), client.end() for every client, sseClients.clear(),
\* server.close().
Close ==
    /\ Alive
    /\ pc = "listening"
    /\ pc' = "closed"
    /\ IF fileWatcher # NULL
         THEN stop
         ELSE UNCHANGED <<watcher, handles, calls, proc, exitCode>>
    /\ conn' = [v \in Viewers |->
                  IF v \in Range(sseClients) THEN "ended" ELSE conn[v]]
    /\ sseClients' = <<>>
    /\ NoOutput
    /\ UNCHANGED <<watch, cliVars, rejectedBy, fileWatcher, renderVars,
                   watchErrors, afterClose>>

\* --------------------------------------------------------- command line
Digits == <<"0", "1", "2", "3", "4", "5", "6", "7", "8", "9">>

DigitValue(c) == (CHOOSE i \in 1..Len(Digits) : Digits[i] = c) - 1

\* The longest prefix of str made of digits.
RECURSIVE DigitPrefix(_)
DigitPrefix(str) ==
    IF str = <<>> \/ Head(str) \notin Range(Digits) THEN <<>>
    ELSE <<Head(str)>> \o DigitPrefix(Tail(str))

\* The number a sequence of digits denotes in the given radix.
RECURSIVE Value(_, _)
Value(ds, radix) ==
    IF ds = <<>> THEN 0
    ELSE Value(SubSeq(ds, 1, Len(ds) - 1), radix) * radix
            + DigitValue(ds[Len(ds)])

RECURSIVE TrimStart(_)
TrimStart(str) ==
    IF str # <<>> /\ Head(str) = " " THEN TrimStart(Tail(str)) ELSE str

\* parseInt(string, 10): leading white space is skipped, a sign is taken,
\* then the digits up to the first character that is not a digit; what
\* follows is ignored.  NaN when there is no digit.
parseInt(str, radix) ==
    LET t      == TrimStart(str)
        signed == t # <<>> /\ Head(t) \in {"+", "-"}
        ds     == DigitPrefix(IF signed THEN Tail(t) ELSE t)
    IN  IF ds = <<>> THEN [nan |-> TRUE, value |-> 0]
        ELSE [nan |-> FALSE,
              value |-> IF signed /\ Head(t) = "-" THEN 0 - Value(ds, radix)
                        ELSE Value(ds, radix)]

MinPort == 1
MaxPort == 65535

\* The test of the parsed port in the action handler.
InvalidPort(port) ==
    port.nan \/ port.value < MinPort \/ port.value > MaxPort

\* The values of --port examined.
PortArgs == { DefaultPort,
              <<"1">>, <<"0">>, <<"-", "1">>,
              <<"6", "5", "5", "3", "5">>, <<"6", "5", "5", "3", "6">>,
              <<>>, <<"a", "b", "c">>,
              <<"8", "0", "a", "b", "c">>, <<"8", "0", ".", "5">> }

\* The action handler up to its first await: the port is parsed and
\* tested, the path resolved and access() called.
CliParsePort ==
    /\ Alive
    /\ cli = "parsePort"
    /\ IF InvalidPort(parseInt(portArg, 10))
         THEN /\ proc' = "exited"
              /\ exitCode' = 1
              /\ UNCHANGED cli
         ELSE /\ cli' = "access"
              /\ UNCHANGED <<proc, exitCode>>
    /\ NoOutput
    /\ UNCHANGED <<watch, portArg, serverVars, renderVars, viewerVars,
                   watchErrors, afterClose>>

\* access() rejects: the file is missing or not readable; exit(1).
CliAccessFail ==
    /\ Alive
    /\ cli = "access"
    /\ proc' = "exited"
    /\ exitCode' = 1
    /\ NoOutput
    /\ UNCHANGED <<watch, cliVars, serverVars, renderVars, viewerVars,
                   watchErrors, afterClose>>

\* access() resolves: the extension is looked at and createServer is
\* called; it runs up to the await of the initial render.
CliAccessOk ==
    /\ Alive
    /\ cli = "access"
    /\ cli' = "createServer"
    /\ pc' = "initialRender"
    /\ rphase' = [rphase EXCEPT ![0] = "reading"]
    /\ NoOutput
    /\ UNCHANGED <<watch, portArg, rejectedBy, fileWatcher, watcher, handles,
                   calls, rcontent, cachedHtml, storeSeq, snapAtStart,
                   changes, viewerVars, procVars>>

\* The catch block of the action handler: createServer rejected, exit(1).
CliExitOnReject ==
    /\ Alive
    /\ pc = "rejected"
    /\ proc' = "exited"
    /\ exitCode' = 1
    /\ NoOutput
    /\ UNCHANGED <<watch, cliVars, serverVars, renderVars, viewerVars,
                   watchErrors, afterClose>>

Common ==
    \/ \E r \in Renders, content \in Contents : ReadFileOk(r, content)
    \/ \E r \in Renders : ReadFileFail(r)
    \/ InitialRenderDone
    \/ ListenOk
    \/ ListenFailed
    \/ \E r \in ChangeRenders : RerenderDone(r)
    \/ WatcherError
    \/ GetRoot
    \/ \E v \in Viewers : GetEvents(v)
    \/ \E v \in Viewers : ViewerDisconnect(v)
    \/ \E v \in Viewers : ReqClose(v)
    \/ Close
    \/ CliExitOnReject

Next == Common \/ ChangeEvent

Spec == Init /\ [][Next]_vars

\* The same program with a longer burst of 'change' events.
NextBurst == Common \/ BurstChangeEvent

SpecBurst == Init /\ [][NextBurst]_vars

\* ------------------------------------------------- the /assets/ route alone
\* requestHandler reads nothing but baseDir and the disk on this route and
\* changes nothing, so it is examined from one state in which the server
\* listens, over all the asset paths.
InitAssets ==
    /\ watch \in BOOLEAN
    /\ pc = "listening"
    /\ rejectedBy = NULL
    /\ cachedHtml = generateHtml(renderMarkdown(1), watch)
    /\ sseClients = <<>>
    /\ fileWatcher = IF watch THEN "created" ELSE NULL
    /\ watcher = IF watch THEN "open" ELSE NULL
    /\ rphase = [r \in Renders |-> IF r = 0 THEN "done" ELSE "idle"]
    /\ rcontent = [r \in Renders |-> IF r = 0 THEN 1 ELSE NoContent]
    /\ conn = [v \in Viewers |-> "none"]
    /\ written = <<>>
    /\ response = NoResponse
    /\ proc = "running"
    /\ exitCode = NoExit
    /\ storeSeq = <<0>>
    /\ snapAtStart = [r \in Renders |-> NoHtml]
    /\ watchErrors = 0
    /\ handles = IF watch THEN 1 ELSE 0
    /\ calls = IF watch THEN <<"start">> ELSE <<>>
    /\ changes = 0
    /\ afterClose = {}
    /\ cli = "createServer"
    /\ portArg = DefaultPort

\* What an asset request does is independent of the response before it, so
\* each asset request is taken after a step that is not an asset request.
NextAssets ==
    \/ response.route # "/assets" /\ \E asset \in AssetUrls : GetAsset(asset)
    \/ GetRoot
    \/ GetOther

SpecAssets == InitAssets /\ [][NextAssets]_vars

\* ------------------------------------------------ renders and all routes
\* createServer from its first line with the requests of every route and
\* the 'change' events; connections stay open and close() is not called.
NextRequests ==
    \/ \E r \in Renders, content \in Contents : ReadFileOk(r, content)
    \/ \E r \in Renders : ReadFileFail(r)
    \/ InitialRenderDone
    \/ ListenOk
    \/ ChangeEvent
    \/ \E r \in ChangeRenders : RerenderDone(r)
    \/ GetRoot
    \/ \E v \in Viewers : GetEvents(v)
    \/ \E asset \in Parts : GetAsset(asset)
    \/ GetOther

SpecRequests == Init /\ [][NextRequests]_vars

\* --------------------------------------------------- the FileWatcher alone
\* The class is exported; here a program constructs one FileWatcher and
\* calls start() and stop() in any order.  No server is created.
InitWatcher ==
    /\ watch = TRUE
    /\ pc = "notCalled"
    /\ rejectedBy = NULL
    /\ cachedHtml = NoHtml
    /\ sseClients = <<>>
    /\ fileWatcher = "created"
    /\ watcher = NULL
    /\ rphase = [r \in Renders |-> "idle"]
    /\ rcontent = [r \in Renders |-> NoContent]
    /\ conn = [v \in Viewers |-> "none"]
    /\ written = <<>>
    /\ response = NoResponse
    /\ proc = "running"
    /\ exitCode = NoExit
    /\ storeSeq = <<>>
    /\ snapAtStart = [r \in Renders |-> NoHtml]
    /\ watchErrors = 0
    /\ handles = 0
    /\ calls = <<>>
    /\ changes = 0
    /\ afterClose = {}
    /\ cli = NULL
    /\ portArg = DefaultPort

CallStart ==
    /\ Alive
    /\ Len(calls) < MaxCalls
    /\ start
    /\ NoOutput
    /\ UNCHANGED <<watch, cliVars, pc, rejectedBy, fileWatcher, renderVars,
                   viewerVars, procVars>>

CallStop ==
    /\ Alive
    /\ Len(calls) < MaxCalls
    /\ stop
    /\ NoOutput
    /\ UNCHANGED <<watch, cliVars, pc, rejectedBy, fileWatcher, renderVars,
                   viewerVars, watchErrors, afterClose>>

NextWatcher == CallStart \/ CallStop

SpecWatcher == InitWatcher /\ [][NextWatcher]_vars

\* --------------------------------------------------- the start of the CLI
\* The process from the first line of the action handler until the server
\* listens or the process has exited.
InitCli ==
    /\ watch \in BOOLEAN
    /\ pc = "notCalled"
    /\ rejectedBy = NULL
    /\ cachedHtml = NoHtml
    /\ sseClients = <<>>
    /\ fileWatcher = NULL
    /\ watcher = NULL
    /\ rphase = [r \in Renders |-> "idle"]
    /\ rcontent = [r \in Renders |-> NoContent]
    /\ conn = [v \in Viewers |-> "none"]
    /\ written = <<>>
    /\ response = NoResponse
    /\ proc = "running"
    /\ exitCode = NoExit
    /\ storeSeq = <<>>
    /\ snapAtStart = [r \in Renders |-> NoHtml]
    /\ watchErrors = 0
    /\ handles = 0
    /\ calls = <<>>
    /\ changes = 0
    /\ afterClose = {}
    /\ cli = "parsePort"
    /\ portArg \in PortArgs

NextCli ==
    \/ CliParsePort
    \/ CliAccessFail
    \/ CliAccessOk
    \/ \E r \in Renders, content \in Contents : ReadFileOk(r, content)
    \/ \E r \in Renders : ReadFileFail(r)
    \/ InitialRenderDone
    \/ ListenOk
    \/ ListenFailed
    \/ CliExitOnReject
    \/ GetRoot

SpecCli == InitCli /\ [][NextCli]_vars

\* ==================================================================== claims

\* C1: re-renders started by the 'change' handler are strictly serialized:
\* at no time are two of them in progress.
C1_Serialized ==
    Cardinality({r \in ChangeRenders : InProgress(r)}) <= 1

\* C2: change events are coalesced: the events that arrive while one render
\* is in progress start at most one further render, so that while a render x
\* is in progress at most one render started after x exists.
C2_Coalesced ==
    \A x \in ChangeRenders :
        InProgress(x) =>
            Cardinality({r \in ChangeRenders :
                            r > x /\ rphase[r] # "idle"}) <= 1

\* C3: every answer to GET / carries the complete document of a render that
\* ran to completion, never null and never a fragment, and no request is
\* answered before the initial render has succeeded.
C3_CompleteSnapshot ==
    /\ response.route # "none" => rphase[0] = "done"
    /\ response.route = "/" =>
          /\ response.status = 200
          /\ response.body.kind = "document"
          /\ \E r \in Renders :
                /\ rphase[r] = "done"
                /\ r \in Range(storeSeq)
                /\ response.body = RenderedHtml(r)

\* GET / is answered while a re-render that read other content is waiting
\* for generateHtml.
C3_Witness ==
    /\ response.route = "/"
    /\ \E r \in ChangeRenders :
          rphase[r] = "generating" /\ rcontent[r] # response.body.body

\* C4: when a re-render fails, cachedHtml is the value it had when that
\* re-render started, and nothing is written to any viewer in that step.
C4_FailureKeepsSnapshot ==
    [][\A r \in ChangeRenders :
          (rphase[r] = "reading" /\ rphase'[r] = "failed") =>
              (cachedHtml' = snapAtStart[r] /\ written' = <<>>)]_vars

\* C5: the notify loop of a successful re-render writes exactly one 'reload'
\* to every client that is in sseClients with an open connection at that
\* time, and the writes of one loop are not mixed with those of another.
C5_EveryViewerNotified ==
    [][\A r \in ChangeRenders :
          (rphase[r] = "generating" /\ rphase'[r] = "done") =>
              /\ \A v \in Range(sseClients) :
                    conn[v] = "open" =>
                        Cardinality({i \in 1..Len(written') :
                            written'[i] = Write(v, "reload", r)}) = 1
              /\ \A i \in 1..Len(written') : written'[i].render = r]_vars

\* C6: when the write to one client fails in the notify loop, that client is
\* removed from sseClients and every other client still gets its 'reload'.
C6_FailureIsolated ==
    [][\A r \in ChangeRenders :
          (rphase[r] = "generating" /\ rphase'[r] = "done") =>
              \A v \in Range(sseClients) :
                 /\ conn[v] # "open" => v \notin Range(sseClients')
                 /\ conn[v] = "open" =>
                       \E i \in 1..Len(written') :
                           written'[i] = Write(v, "reload", r)]_vars

\* C7: after the FileWatcher has emitted 'error' the process is still
\* running (and with it the HTTP server).
C7_WatchErrorSurvived ==
    watchErrors > 0 => proc = "running"

\* C8: an asset request whose resolved path is neither the base directory
\* nor below it, by path segments, is not answered 200 and no file is
\* streamed.
C8_EscapeRejected ==
    LET relativePath == decodeURIComponent(response.asset)
        segs == ResolveSegments(baseDir, relativePath)
        base == ResolveSegments(baseDir, <<>>)
        inside == /\ Len(base) <= Len(segs)
                  /\ SubSeq(segs, 1, Len(base)) = base
    IN  (response.route = "/assets" /\ relativePath # URIError /\ ~inside)
            => (response.status # 200 /\ response.file = <<>>)

\* C9: when the initial render fails createServer rejects with the render
\* error, never listens, creates no FileWatcher, and no request is answered
\* without a snapshot.
C9_FailFast ==
    /\ rphase[0] = "failed" =>
          /\ pc = "rejected"
          /\ rejectedBy = "render"
          /\ fileWatcher = NULL
          /\ watcher = NULL
          /\ response = NoResponse
    /\ pc \in {"binding", "listening", "closed"} => cachedHtml # NoHtml

\* createServer({watch: true}) has rejected with the render error.
C9_Witness ==
    watch /\ pc = "rejected" /\ rejectedBy = "render"

\* C10: a 'reload' written for re-render R finds R's document stored: R is
\* in the store history and cachedHtml holds R's document or one stored
\* after it; and every GET / answered once R's handler has notified returns
\* R's document or one stored after it.
C10_StoredBeforeReload ==
    LET from(R) == CHOOSE k \in 1..Len(storeSeq) : storeSeq[k] = R
        after(R) == {RenderedHtml(storeSeq[k]) : k \in from(R)..Len(storeSeq)}
    IN  /\ \A i \in 1..Len(written) :
              written[i].data = "reload" =>
                  /\ written[i].render \in Range(storeSeq)
                  /\ cachedHtml \in after(written[i].render)
        /\ response.route = "/" =>
              \A R \in ChangeRenders :
                  rphase[R] = "done" =>
                      (R \in Range(storeSeq) /\ response.body \in after(R))

\* A viewer is told to reload while another re-render is still in progress.
C10_Witness ==
    /\ \E i \in 1..Len(written) : written[i].data = "reload"
    /\ \E q \in ChangeRenders : InProgress(q)

\* C11: a failed re-render leaves the process running, createServer's
\* position and cachedHtml as they were; every GET / returns the document
\* stored last; and a re-render that succeeds stores its document and
\* writes 'reload' to every client in sseClients with an open connection.
C11_LastGoodSnapshot ==
    [][/\ \A r \in ChangeRenders :
             (rphase[r] = "reading" /\ rphase'[r] = "failed") =>
                 /\ proc' = "running"
                 /\ pc' = pc
                 /\ cachedHtml' = cachedHtml
       /\ response'.route = "/" =>
             /\ storeSeq' # <<>>
             /\ response'.body = RenderedHtml(storeSeq'[Len(storeSeq')])
       /\ \A r \in ChangeRenders :
             (rphase[r] = "generating" /\ rphase'[r] = "done") =>
                 /\ cachedHtml' = RenderedHtml(r)
                 /\ \A v \in Range(sseClients) :
                       conn[v] = "open" =>
                           \E i \in 1..Len(written') :
                               written'[i] = Write(v, "reload", r)]_vars

\* C12: while a re-render is in progress, GET / can be answered at once
\* and GET /events on a new connection can be answered at once; the answer
\* to GET / is the document cachedHtml holds, that of the render that
\* stored last, and no render still in progress has stored; the answer to
\* GET /events leaves the connection open in sseClients.
C12_AnsweredDuringRender ==
    (\E r \in ChangeRenders : InProgress(r)) =>
        /\ Serving => ENABLED GetRoot
        /\ (Serving /\ \E v \in Viewers : conn[v] = "none") =>
              ENABLED (\E v \in Viewers : GetEvents(v))
        /\ \A r \in ChangeRenders : InProgress(r) => r \notin Range(storeSeq)
        /\ response.route = "/" =>
              /\ response.status = 200
              /\ response.body = cachedHtml
              /\ response.body = RenderedHtml(storeSeq[Len(storeSeq)])
        /\ response.route = "/events" =>
              /\ response.status = 200
              /\ \E v \in Range(sseClients) :
                    /\ conn[v] = "open"
                    /\ written = <<Write(v, "connected", 0)>>

\* A viewer subscribes while a re-render is reading the file; a viewer
\* that subscribed before is still connected.
C12_Witness ==
    /\ response.route = "/events"
    /\ response.status = 200
    /\ Len(sseClients) = 2
    /\ \E r \in ChangeRenders : rphase[r] = "reading"

\* C13: sseClients.delete of a connection that is not in sseClients (its
\* 'close' handler runs after close() has cleared the set, or runs again)
\* changes neither the set nor any other connection and raises no error;
\* deleting twice is deleting once.
C13_RemovalIdempotent ==
    [][/\ \A v \in Viewers :
             /\ SetDelete(SetDelete(sseClients, v), v) = SetDelete(sseClients, v)
             /\ v \notin Range(sseClients) => SetDelete(sseClients, v) = sseClients
       /\ \A v \in Viewers :
             (/\ conn[v] \in {"gone", "ended"}
              /\ conn'[v] = "none"
              /\ v \notin Range(sseClients)) =>
                 /\ sseClients' = sseClients
                 /\ proc' = "running"
                 /\ \A u \in Viewers \ {v} : conn'[u] = conn[u]]_vars

\* The 'close' handler of a connection ran after close() had cleared
\* sseClients, while another connection ended by close() still awaits its
\* own.
C13_Witness ==
    /\ "close" \in afterClose
    /\ proc = "running"
    /\ \E v \in Viewers : conn[v] = "ended"

C15_StopSafe ==
    [][(Len(calls') = Len(calls) + 1 /\ calls'[Len(calls')] = "stop") =>
          /\ proc' = "running"
          /\ watcher' = NULL
          /\ watcher = NULL => UNCHANGED <<watcher, handles, fileWatcher>>
          /\ watcher # NULL => handles' = handles - 1]_vars

\* stop() was called before any start(), after a start(), and again after
\* that stop().
C15_Witness ==
    /\ Len(calls) >= 4
    /\ SubSeq(calls, 1, 4) = <<"stop", "start", "stop", "stop">>
    /\ proc = "running"
    /\ watcher = NULL
    /\ handles = 0

\* C16: a step that answers a request, whatever its route, starts no
\* render and leaves cachedHtml and everything else of the renders as it
\* was; and the number of updateRenderedHtml invocations started is one
\* more than the number of 'change' events delivered.
C16_RenderOnlyOnChange ==
    [][/\ response'.route # "none" => UNCHANGED renderVars
       /\ Cardinality({r \in Renders : rphase'[r] # "idle"}) = 1 + changes']_vars

\* An asset request is answered while the re-render of the second 'change'
\* event is in progress.
C16_Witness ==
    /\ response.route = "/assets"
    /\ changes = 2
    /\ \E r \in ChangeRenders : InProgress(r)

\* C17: a reference that descends from the directory of the markdown file
\* (plain names, possibly after "./") is not answered 403 and, where the
\* file exists, the file streamed is the base directory followed by the
\* reference: for base /d, ./d/e gives /d/d/e; ../../e is answered 403; and
\* the URL the renderer writes for a relative reference is routed to
\* /assets/ and answered as that reference.
C17_RelativeResolved ==
    response.route = "/assets" =>
        LET url       == response.asset
            rewritten == remarkRelativePathResolver(url)
            requested == slice(rewritten, Len(AssetsPrefix))
            segs      == Split(url)
            names     == SelectSeq(segs, LAMBDA seg : seg # <<".">>)
            plain(seg) == seg # <<>> /\ \A i \in 1..Len(seg) : seg[i] \in {"d", "e"}
            descends  == /\ names # <<>>
                         /\ \A i \in 1..Len(names) : plain(names[i])
            target    == baseDir \o PathString(names)
        IN  /\ (url # <<>> /\ Head(url) # "/") =>
                  /\ startsWith(rewritten, AssetsPrefix)
                  /\ AssetResponse(requested) = response
            /\ descends =>
                  /\ response.status # 403
                  /\ target \in Files =>
                        (response.status = 200 /\ response.file = target)
            /\ url = <<".", "/", "d", "/", "e">> =>
                  /\ response.status = 200
                  /\ response.file = <<"/", "d", "/", "d", "/", "e">>
            /\ url = <<".", ".", "/", ".", ".", "/", "e">> =>
                  (response.status = 403 /\ response.file = <<>>)

\* The reference ./d/e has been requested and /d/d/e streamed.
C17_Witness ==
    /\ response.route = "/assets"
    /\ response.asset = <<".", "/", "d", "/", "e">>
    /\ response.file = <<"/", "d", "/", "d", "/", "e">>

\* C18: a reference, relative to the directory of the markdown file, to a
\* file that exists is served with that file, also when the reference
\* ascends to the parent directory.
C18_RelativeImageServed ==
    LET url    == response.asset
        target == resolve(baseDir, decodeURIComponent(url))
    IN  (/\ response.route = "/assets"
         /\ url # <<>> /\ Head(url) # "/"
         /\ decodeURIComponent(url) # URIError
         /\ target \in Files) =>
            (response.status = 200 /\ response.file = target)

\* C19: when --port is not a decimal integer from 1 to 65535 the server
\* never listens and the process exits; an exit before createServer is
\* called (bad port, file missing or unreadable) and an exit after
\* createServer rejected (initial render failed, port in use) have a
\* nonzero code and leave no server listening.
C19_ExitsNonzero ==
    LET isPort == /\ portArg # <<>>
                  /\ \A i \in 1..Len(portArg) : portArg[i] \in Range(Digits)
                  /\ Value(portArg, 10) \in MinPort..MaxPort
    IN  /\ ~isPort =>
              /\ pc = "notCalled"
              /\ cli = "parsePort"
              /\ proc = "exited" => exitCode # 0
        /\ (proc = "exited" /\ cli = "access") =>
              (exitCode # 0 /\ pc = "notCalled")
        /\ (proc = "exited" /\ pc = "rejected") => exitCode # 0
        /\ rejectedBy # NULL => pc = "rejected"

\* C21: a render never replaces the document of a render that read newer
\* content, and when every render that was started has completed with
\* success cachedHtml is the document of the newest content read.
C21_StoredInOrder ==
    /\ \A i \in 1..Len(storeSeq) - 1 :
          rcontent[storeSeq[i]] <= rcontent[storeSeq[i + 1]]
    /\ (\A r \in Renders : rphase[r] \in {"idle", "done"}) =>
          \A r \in Renders :
              rphase[r] = "done" => cachedHtml.body >= rcontent[r]

\* C22: sseClients holds every connection once, holds exactly the
\* connections whose /events request has been handled and whose 'close'
\* event has not (unless close() has cleared the set), and never one whose
\* 'close' event has been handled.
C22_OnlyLiveClients ==
    /\ Cardinality(Range(sseClients)) = Len(sseClients)
    /\ \A v \in Range(sseClients) : conn[v] \in {"open", "gone"}
    /\ \A v \in Viewers :
          /\ conn[v] \in {"open", "gone"} => v \in Range(sseClients)
          /\ conn[v] = "none" => v \notin Range(sseClients)

\* The 'close' event of the first connection has been handled and removed
\* it while the second, added after it, is still a client.
C22_Witness ==
    /\ sseClients = <<2>>
    /\ conn[1] = "none"
    /\ conn[2] = "open"

\* C23: when createServer has rejected, no chokidar watcher started by it
\* is open and the FileWatcher holds none; and none is open once close()
\* has been called.
C23_NoWatcherAfterReject ==
    pc \in {"rejected", "closed"} => (watcher = NULL /\ handles = 0)

\* C24: whatever the sequence of start() and stop() calls on a FileWatcher,
\* at most one chokidar watcher created by it is open, and none is open
\* when the last call was stop().
C24_OneHandle ==
    /\ handles <= 1
    /\ (calls # <<>> /\ calls[Len(calls)] = "stop") => handles = 0

\* C25: without watch no FileWatcher exists and no watcher is open, no
\* 'change' event is handled and nothing is stored after the initial
\* render, sseClients is empty, GET /events is not answered on the /events
\* route (it gets the final 404) and the document has no live reload
\* script; with watch the document has the script and an answer on the
\* /events route is a 200 whose connection is in sseClients.
C25_WatchAllOrNothing ==
    /\ ~watch =>
          /\ fileWatcher = NULL /\ watcher = NULL /\ handles = 0
          /\ changes = 0
          /\ Len(storeSeq) <= 1
          /\ sseClients = <<>>
          /\ \A v \in Viewers : conn[v] = "none"
          /\ response.route # "/events"
          /\ response.route = "other" => response.status = 404
          /\ ~cachedHtml.liveReload
          /\ response.route = "/" => ~response.body.liveReload
    /\ watch =>
          /\ cachedHtml # NoHtml => cachedHtml.liveReload
          /\ response.route = "/" => response.body.liveReload
          /\ response.route # "other"
          /\ response.route = "/events" =>
                /\ response.status = 200
                /\ \E v \in Range(sseClients) :
                      written = <<Write(v, "connected", 0)>>

\* Without watch a GET /events has been answered 404.
C25_Witness ==
    /\ ~watch
    /\ response.route = "other"
    /\ response.status = 404
    /\ cachedHtml.kind = "document"

\* C26: the step that registers a connection writes ': connected' to it and
\* nothing else, and a 'reload' is written only by the notify loop of a
\* re-render that completes in that step, only to connections that were in
\* sseClients before the step: no 'reload' of an earlier re-render reaches
\* a connection registered later.
C26_NoReplay ==
    [][/\ \A v \in Viewers :
             (conn[v] = "none" /\ conn'[v] = "open") =>
                 written' = <<Write(v, "connected", 0)>>
       /\ \A i \in 1..Len(written') :
             written'[i].data = "reload" =>
                 /\ written'[i].client \in Range(sseClients)
                 /\ written'[i].render \in ChangeRenders
                 /\ rphase[written'[i].render] = "generating"
                 /\ rphase'[written'[i].render] = "done"]_vars

\* A connection has just been registered after the notify loop of a
\* re-render has run.
C26_Witness ==
    /\ \E r \in ChangeRenders : rphase[r] = "done"
    /\ \E v \in Viewers :
          /\ written = <<Write(v, "connected", 0)>>
          /\ response.route = "/events"
          /\ v \in Range(sseClients)

\* C27: an asset request whose path has malformed percent-encoding, is
\* rejected by the prefix test, or names nothing that exists or can be read
\* is answered 403 or 404 with no file streamed; the step leaves cachedHtml,
\* sseClients and the connections as they were, the process keeps running
\* and the server still answers requests.
C27_FailedAssetHarmless ==
    [][response'.route = "/assets" =>
          LET relativePath == decodeURIComponent(response'.asset)
              assetPath    == resolve(baseDir, relativePath)
              malformed    == relativePath = URIError
              rejected     == ~malformed /\ ~startsWith(assetPath, baseDir)
              missing      == /\ ~malformed /\ ~rejected
                              /\ assetPath \notin Files \cup Dirs
          IN  (malformed \/ rejected \/ missing) =>
                  /\ response'.status \in {403, 404}
                  /\ rejected <=> response'.status = 403
                  /\ response'.file = <<>>
                  /\ cachedHtml' = cachedHtml
                  /\ sseClients' = sseClients
                  /\ conn' = conn
                  /\ proc' = "running"
                  /\ pc' = "listening"
                  /\ Serving']_vars

\* A malformed asset request has been answered 404 while a client is
\* registered and a re-render has been stored.
C27_Witness ==
    /\ response.route = "/assets"
    /\ decodeURIComponent(response.asset) = URIError
    /\ response.status = 404
    /\ sseClients # <<>>
    /\ Len(storeSeq) > 1
    /\ Serving
====
